---- MODULE Spec2Model ----
(***************************************************************************)
(* Model of the deployment gateway: owner-scoped project CRUD              *)
(* (routers/projects.py), the deployment endpoints and the background      *)
(* deployment simulator (routers/deployments.py).                          *)
(*                                                                         *)
(* Request handlers are plain `def` endpoints and run on worker threads;   *)
(* the simulator is a coroutine started by BackgroundTasks after the       *)
(* response of the triggering request.  The database row is the only       *)
(* thing they share.  A handler that reads a row and later commits it is   *)
(* modelled as a query step and a commit step where the claims are about   *)
(* concurrent requests (cancel); the simulator is cut at every commit.     *)
(*                                                                         *)
(* The rest of the gateway is modelled next to it, each part with its own  *)
(* specification over the same variables: the rate limiter                 *)
(* (middleware/rate_limiter.py, RateSpec), registration (RegisterSpec),    *)
(* login, refresh and logout (routers/auth.py, dependencies.py,            *)
(* SessionSpec) and the admin, cache and analytics endpoints behind        *)
(* require_admin (AdminSpec).  The statistics of routers/analytics.py are  *)
(* computed over the requests of AnalyticsSpec; RetrySpec, BearerSpec,     *)
(* FlagSpec, RunsSpec and ProjectSpec put the requests together that the   *)
(* properties about them need.                                             *)
(***************************************************************************)
EXTENDS Integers, Sequences, FiniteSets, TLC

\* ---- bounds ----
NUsers == 2
MaxProjects == 1
MaxDeployments == 1
MaxInflight == 1
NClients == 1
MaxNow == 120
MaxPending == 3
MaxAdminRequests == 1
NEmails == 3
MaxTokens == 2
MaxLogouts == 1
MaxWeeks == 1
MaxSeconds == 1
MaxRows == 2
MaxFlagRequests == 2
MaxRuns == 2

Users == 1..NUsers
ProjectIds == 1..MaxProjects
DeploymentIds == 1..MaxDeployments
Slots == 1..MaxInflight
Names == {"app", "api"}

\* ---- models.py ----
PENDING == "pending"
BUILDING == "building"
DEPLOYING == "deploying"
SUCCESS == "success"
FAILED == "failed"
CANCELLED == "cancelled"
DeploymentStatus == {PENDING, BUILDING, DEPLOYING, SUCCESS, FAILED, CANCELLED}

NULL == 0

\* datetime.utcnow() as a column value: every stamp written to a row is later
\* than the value it replaces (NULL is before every stamp).
utcnow(previous) == previous + 1

\* ---- log lines written by routers/deployments.py ----
LogQueued == <<"Deployment queued...">>
LogStartBuild == <<"Starting build process...">>
LogInstalled == <<"+ Dependencies installed", "+ Building application...">>
LogBuilt == <<"+ Build completed successfully", "Starting deployment...">>
LogSuccess == <<"+ Deployment completed successfully!">>
LogFailed == <<"x Deployment failed: Build timeout">>
LogCancelled == <<"", "x Deployment cancelled by user">>

VARIABLES
    projects,        \* projects table: id -> [user_id, name]
    project_seq,     \* last project id handed out
    deployments,     \* deployments table: sequence indexed by id
    sim_pc,          \* position of each deployment's background task
    inflight,        \* cancel requests between their query and their commit
    response,        \* the last response sent
    first_cancel     \* history: status a deployment had when first cancelled

\* state of the rest of the gateway: the rate limiter (middleware/rate_limiter.py),
\* the users and refresh_tokens tables (models.py) with the requests of
\* routers/auth.py and routers/admin.py, and the cache behind routers/cache.py
VARIABLES
    requests,        \* RateLimiter.requests: client id -> list of time.time() stamps
    now,             \* time.time(), in ticks
    rate_response,   \* the last response that passed the rate limit middleware
    users,           \* users table: id -> [email, is_active, is_admin]
    refresh_tokens,  \* refresh_tokens table: the token strings stored
    clock,           \* datetime.utcnow(), in whole seconds
    pending,         \* auth and admin requests between their query and their commit
    auth_response,   \* the last response of routers/auth.py
    logged_out,      \* history: the tokens a completed logout was given
    cache_keys       \* keys held by the cache

\* routers/analytics.py: a request with what its queries return, and the response
VARIABLES
    query,           \* the analytics request under consideration
    report           \* the last response of routers/analytics.py

deploy_vars == <<projects, project_seq, deployments, sim_pc, inflight, response, first_cancel>>
deploy_vars_but_response == <<projects, project_seq, deployments, sim_pc, inflight, first_cancel>>
rate_vars == <<requests, now, rate_response>>
auth_vars == <<users, refresh_tokens, clock, pending, auth_response, logged_out>>
analytics_vars == <<query, report>>
gateway_vars == <<rate_vars, auth_vars, cache_keys, analytics_vars>>
vars == <<deploy_vars, gateway_vars>>

NoBody == [status |-> "none", logs |-> <<>>]
Idle == [busy |-> FALSE, user |-> 0, id |-> 0, snap |-> NoBody]

Reply(op, u, target, code, body) ==
    [op |-> op, user |-> u, target |-> target, code |-> code, body |-> body]

BodyOf(dep) ==
    [status |-> dep.status, logs |-> dep.logs]

\* the owner filter left out of the project query
OwnsProject_AnyUser(u, p) ==
    p \in DOMAIN projects

\* Project.id == project_id, Project.user_id == current_user.id
OwnsProject(u, p) ==
    p \in DOMAIN projects /\ projects[p].user_id = u

\* the join on the owning project left out of the deployment query
OwnsDeployment_AnyUser(u, d) ==
    d \in 1..Len(deployments)

\* db.query(Deployment).join(Project).filter(Deployment.id == id, Project.user_id == user)
OwnsDeployment(u, d) ==
    /\ d \in 1..Len(deployments)
    /\ OwnsProject(u, deployments[d].project_id)

ProjectDeployments(p) ==
    {d \in 1..Len(deployments) : deployments[d].project_id = p}

\* ---- middleware/rate_limiter.py: constants and initial state ----
Clients == 1..NClients

\* time.time() is a float; the model counts it in half seconds
TicksPerSecond == 2

\* the 60 of lines 21 and 30, in ticks
Window == 60 * TicksPerSecond

\* rate_limiter = RateLimiter(requests_per_minute=60)
requests_per_minute == 60

\* request.url.path, one character per element
Health == <<"/", "h", "e", "a", "l", "t", "h">>
HealthReady == Health \o <<"/", "r", "e", "a", "d", "y">>
ProjectsPath == <<"/", "p", "r", "o", "j", "e", "c", "t", "s", "/">>
CacheHealth == <<"/", "c", "a", "c", "h", "e">> \o Health
Paths == {Health, HealthReady, ProjectsPath, CacheHealth}

\* time that passes between two requests: 59 s, 59.5 s or 60 s
Gaps == {Window - TicksPerSecond, Window - 1, Window}

NoHeader == "absent"
RateReply(c, path, code, retry_after) ==
    [client |-> c, path |-> path, code |-> code, retry_after |-> retry_after]

RateInit ==
    /\ requests = [c \in Clients |-> <<>>]
    /\ now = 0
    /\ rate_response = RateReply(0, <<>>, 0, NoHeader)

\* ---- models.py: users and refresh_tokens; initial state ----
PendingSlots == 1..MaxPending

EmailList == <<"a@x.io", "b@x.io", "c@x.io", "d@x.io">>
Email(u) == EmailList[u]

\* is_active defaults to True, is_admin to False
NewUser(email) == [email |-> email, is_active |-> TRUE, is_admin |-> FALSE]

\* alembic/versions/002_add_admin_field.py: the user with id 1 becomes admin
Registered ==
    [u \in Users |-> [NewUser(Email(u)) EXCEPT !.is_admin = (u = 1)]]

\* config.py, in seconds
ACCESS_TOKEN_EXPIRE == 30 * 60
REFRESH_TOKEN_EXPIRE == 7 * 24 * 60 * 60

\* the moments at which requests are made: whole weeks and seconds after the start
Instants == {w * REFRESH_TOKEN_EXPIRE + sec : w \in 0..MaxWeeks, sec \in 0..MaxSeconds}

\* a signed JWT is its payload: HS256 gives the same string for the same payload
Jwt(sub, type, exp) == [sub |-> sub, type |-> type, exp |-> exp]
NoToken == Jwt(0, "none", 0)
\* a string that jwt.decode rejects
Garbage == Jwt(0, "garbage", 0)

NoRequest ==
    [op |-> "none", user |-> 0, email |-> "", token |-> NoToken, target |-> 0,
     is_admin |-> FALSE]

\* the keys the cache holds when the service starts
CacheKeys == {"analytics:overview"}
AuthReply(op, code, detail, u, access, refresh) ==
    [op |-> op, code |-> code, detail |-> detail, user |-> u,
     access_token |-> access, refresh_token |-> refresh]

SessionsInit ==
    /\ refresh_tokens = {}
    /\ clock = 0
    /\ pending = [s \in PendingSlots |-> NoRequest]
    /\ auth_response = AuthReply("none", 0, "", 0, NoToken, NoToken)
    /\ logged_out = {}
    /\ cache_keys = CacheKeys

\* ---- routers/analytics.py, utils/validation.py: requests and responses ----
SecondsPerDay == 24 * 60 * 60
MaxRangeDays == 365
DefaultRangeDays == 30

\* a start_date or end_date query parameter: left out, not an ISO 8601 string,
\* or an ISO 8601 string naming an instant (seconds) with or without a UTC offset
NoDate == [kind |-> "none", at |-> 0, aware |-> FALSE]
BadDate == [kind |-> "garbage", at |-> 0, aware |-> FALSE]
Iso(at, aware) == [kind |-> "iso", at |-> at, aware |-> aware]

\* a deployments row as the analytics queries read it
Row(status, started_at, completed_at) ==
    [status |-> status, started_at |-> started_at, completed_at |-> completed_at]

\* the month a users row was created in, relative to the month of the request
Months == {"this", "last", "older"}

NoStats ==
    [days |-> 0, total_deployments |-> 0, success_rate |-> 0,
     avg_deployment_time_seconds |-> 0, user_growth_percentage |-> 0]
AnalyticsReply(op, u, code, detail, body) ==
    [op |-> op, user |-> u, code |-> code, detail |-> detail, body |-> body]
NoQuery ==
    [start_date |-> NoDate, end_date |-> NoDate, rows |-> <<>>,
     created_at |-> [u \in Users |-> "older"]]

AnalyticsIdle ==
    /\ query = NoQuery
    /\ report = AnalyticsReply("none", 0, 0, "", NoStats)

DeployInit ==
    /\ projects = <<>>
    /\ project_seq = 0
    /\ deployments = <<>>
    /\ sim_pc = <<>>
    /\ inflight = [s \in Slots |-> Idle]
    /\ response = Reply("none", 0, 0, 0, NoBody)
    /\ first_cancel = <<>>

Init ==
    /\ DeployInit
    /\ RateInit
    /\ users = Registered
    /\ SessionsInit
    /\ AnalyticsIdle

\* ---- routers/projects.py ----
create_project(u, n) ==
    /\ project_seq < MaxProjects
    /\ project_seq' = project_seq + 1
    /\ projects' = (project_seq' :> [user_id |-> u, name |-> n]) @@ projects
    /\ response' = Reply("create_project", u, project_seq', 201, NoBody)
    /\ UNCHANGED <<deployments, sim_pc, inflight, first_cancel, gateway_vars>>

get_project(u, p) ==
    /\ response' = Reply("get_project", u, p, IF OwnsProject(u, p) THEN 200 ELSE 404, NoBody)
    /\ UNCHANGED <<projects, project_seq, deployments, sim_pc, inflight, first_cancel, gateway_vars>>

\* the project looked up by id alone and handed to the caller
update_project_TakesOwnership(u, p, n) ==
    /\ IF p \in DOMAIN projects
       THEN /\ projects' = [projects EXCEPT ![p].name = n, ![p].user_id = u]
            /\ response' = Reply("update_project", u, p, 200, NoBody)
       ELSE /\ projects' = projects
            /\ response' = Reply("update_project", u, p, 404, NoBody)
    /\ UNCHANGED <<project_seq, deployments, sim_pc, inflight, first_cancel, gateway_vars>>

\* lines 58-81; github_url, written next to name, is not part of the model
update_project(u, p, n) ==
    /\ IF OwnsProject(u, p)
       THEN /\ projects' = [projects EXCEPT ![p].name = n]
            /\ response' = Reply("update_project", u, p, 200, NoBody)
       ELSE /\ projects' = projects
            /\ response' = Reply("update_project", u, p, 404, NoBody)
    /\ UNCHANGED <<project_seq, deployments, sim_pc, inflight, first_cancel, gateway_vars>>

\* db.delete(project): the deployments relationship has no cascade, so the
\* flush sets project_id of the children to NULL, the NOT NULL column rejects
\* it and the request ends in an IntegrityError (500) with nothing deleted.
delete_project(u, p) ==
    /\ IF ~OwnsProject(u, p)
       THEN /\ projects' = projects
            /\ response' = Reply("delete_project", u, p, 404, NoBody)
       ELSE IF ProjectDeployments(p) # {}
       THEN /\ projects' = projects
            /\ response' = Reply("delete_project", u, p, 500, NoBody)
       ELSE /\ projects' = [q \in DOMAIN projects \ {p} |-> projects[q]]
            /\ response' = Reply("delete_project", u, p, 204, NoBody)
    /\ UNCHANGED <<project_seq, deployments, sim_pc, inflight, first_cancel, gateway_vars>>

\* ---- routers/deployments.py ----
NewDeployment(p) ==
    [project_id |-> p, status |-> PENDING, logs |-> LogQueued, completed_at |-> NULL]

trigger_deployment(u, p) ==
    IF ~OwnsProject(u, p)
    THEN /\ response' = Reply("trigger_deployment", u, p, 404, NoBody)
         /\ UNCHANGED <<projects, project_seq, deployments, sim_pc, inflight, first_cancel, gateway_vars>>
    ELSE /\ Len(deployments) < MaxDeployments
         /\ deployments' = Append(deployments, NewDeployment(p))
         /\ sim_pc' = Append(sim_pc, "initial_delay")
         /\ first_cancel' = Append(first_cancel, "none")
         /\ response' = Reply("trigger_deployment", u, p, 201, BodyOf(deployments'[Len(deployments')]))
         /\ UNCHANGED <<projects, project_seq, inflight, gateway_vars>>

get_deployment(u, d) ==
    /\ response' = IF OwnsDeployment(u, d)
                   THEN Reply("get_deployment", u, d, 200, BodyOf(deployments[d]))
                   ELSE Reply("get_deployment", u, d, 404, NoBody)
    /\ UNCHANGED <<projects, project_seq, deployments, sim_pc, inflight, first_cancel, gateway_vars>>

get_deployment_logs(u, d) ==
    /\ response' = IF OwnsDeployment(u, d)
                   THEN Reply("get_deployment_logs", u, d, 200,
                              [NoBody EXCEPT !.logs = deployments[d].logs])
                   ELSE Reply("get_deployment_logs", u, d, 404, NoBody)
    /\ UNCHANGED <<projects, project_seq, deployments, sim_pc, inflight, first_cancel, gateway_vars>>

Terminal == {SUCCESS, FAILED, CANCELLED}

\* lines 136-145: load the row, 404 when it is not the caller's
cancel_query(s, u, d) ==
    /\ ~inflight[s].busy
    /\ IF OwnsDeployment(u, d)
       THEN /\ inflight' = [inflight EXCEPT ![s] =
                    [busy |-> TRUE, user |-> u, id |-> d, snap |-> BodyOf(deployments[d])]]
            /\ response' = response
       ELSE /\ inflight' = inflight
            /\ response' = Reply("cancel_deployment", u, d, 404, NoBody)
    /\ UNCHANGED <<projects, project_seq, deployments, sim_pc, first_cancel, gateway_vars>>

\* CANCELLED forgotten in the list of statuses that cannot be cancelled
CancelRejected_Finished(s) ==
    inflight[s].snap.status \in {SUCCESS, FAILED}

\* line 148
CancelRejected(s) ==
    inflight[s].snap.status \in Terminal

\* lines 147-160: check the loaded status, then write and commit
cancel_commit(s) ==
    /\ inflight[s].busy
    /\ LET u == inflight[s].user
           d == inflight[s].id
           snap == inflight[s].snap
       IN IF CancelRejected(s)
          THEN /\ response' = Reply("cancel_deployment", u, d, 400, NoBody)
               /\ UNCHANGED <<deployments, first_cancel>>
          ELSE /\ deployments' = [deployments EXCEPT
                        ![d].status = CANCELLED,
                        ![d].completed_at = utcnow(@),
                        ![d].logs = snap.logs \o LogCancelled]
               /\ first_cancel' = [first_cancel EXCEPT ![d] =
                        IF @ = "none" THEN deployments[d].status ELSE @]
               /\ response' = Reply("cancel_deployment", u, d, 200, NoBody)
    /\ inflight' = [inflight EXCEPT ![s] = Idle]
    /\ UNCHANGED <<projects, project_seq, sim_pc, gateway_vars>>

\* ---- simulate_deployment, one action per commit ----
\* the task returning at line 22 although the row was found
simulate_build_NotFound(d) ==
    /\ d \in 1..Len(deployments)
    /\ sim_pc[d] = "initial_delay"
    /\ sim_pc' = [sim_pc EXCEPT ![d] = "done"]
    /\ UNCHANGED <<projects, project_seq, deployments, inflight, response, first_cancel, gateway_vars>>

\* lines 17-27
simulate_build(d) ==
    /\ d \in 1..Len(deployments)
    /\ sim_pc[d] = "initial_delay"
    /\ deployments' = [deployments EXCEPT
            ![d].status = BUILDING,
            ![d].logs = LogStartBuild]
    /\ sim_pc' = [sim_pc EXCEPT ![d] = "build_delay"]
    /\ UNCHANGED <<projects, project_seq, inflight, response, first_cancel, gateway_vars>>

\* lines 29-32
simulate_install(d) ==
    /\ d \in 1..Len(deployments)
    /\ sim_pc[d] = "build_delay"
    /\ deployments' = [deployments EXCEPT ![d].logs = @ \o LogInstalled]
    /\ sim_pc' = [sim_pc EXCEPT ![d] = "installed"]
    /\ UNCHANGED <<projects, project_seq, inflight, response, first_cancel, gateway_vars>>

\* lines 34-38
simulate_deploy(d) ==
    /\ d \in 1..Len(deployments)
    /\ sim_pc[d] = "installed"
    /\ deployments' = [deployments EXCEPT
            ![d].status = DEPLOYING,
            ![d].logs = @ \o LogBuilt]
    /\ sim_pc' = [sim_pc EXCEPT ![d] = "deploy_delay"]
    /\ UNCHANGED <<projects, project_seq, inflight, response, first_cancel, gateway_vars>>

\* lines 40-51; ok is random.random() > 0.2
\* the outcome written to every deployment of the project
simulate_finish_WholeProject(d, ok) ==
    /\ d \in 1..Len(deployments)
    /\ sim_pc[d] = "deploy_delay"
    /\ deployments' = [e \in 1..Len(deployments) |->
            IF deployments[e].project_id = deployments[d].project_id
            THEN [deployments[e] EXCEPT
                    !.status = IF ok THEN SUCCESS ELSE FAILED,
                    !.logs = @ \o (IF ok THEN LogSuccess ELSE LogFailed),
                    !.completed_at = utcnow(@)]
            ELSE deployments[e]]
    /\ sim_pc' = [sim_pc EXCEPT ![d] = "done"]
    /\ UNCHANGED <<projects, project_seq, inflight, response, first_cancel, gateway_vars>>

simulate_finish(d, ok) ==
    /\ d \in 1..Len(deployments)
    /\ sim_pc[d] = "deploy_delay"
    /\ deployments' = [deployments EXCEPT
            ![d].status = IF ok THEN SUCCESS ELSE FAILED,
            ![d].logs = @ \o (IF ok THEN LogSuccess ELSE LogFailed),
            ![d].completed_at = utcnow(@)]
    /\ sim_pc' = [sim_pc EXCEPT ![d] = "done"]
    /\ UNCHANGED <<projects, project_seq, inflight, response, first_cancel, gateway_vars>>

simulate_deployment(d) ==
    \/ simulate_build(d)
    \/ simulate_install(d)
    \/ simulate_deploy(d)
    \/ \E ok \in BOOLEAN : simulate_finish(d, ok)

Next ==
    \/ \E u \in Users, n \in Names : create_project(u, n)
    \/ \E u \in Users, p \in ProjectIds : get_project(u, p)
    \/ \E u \in Users, p \in ProjectIds, n \in Names : update_project(u, p, n)
    \/ \E u \in Users, p \in ProjectIds : delete_project(u, p)
    \/ \E u \in Users, p \in ProjectIds : trigger_deployment(u, p)
    \/ \E u \in Users, d \in DeploymentIds : get_deployment(u, d)
    \/ \E u \in Users, d \in DeploymentIds : get_deployment_logs(u, d)
    \/ \E s \in Slots, u \in Users, d \in DeploymentIds : cancel_query(s, u, d)
    \/ \E s \in Slots : cancel_commit(s)
    \/ \E d \in DeploymentIds : simulate_deployment(d)

Spec == Init /\ [][Next]_vars

\* The event loop runs every background task it was handed: each timed delay
\* of a simulator elapses and the step after it is taken.
FairSpec == Spec /\ \A d \in DeploymentIds : WF_vars(simulate_deployment(d))

TypeOK ==
    /\ DOMAIN projects \subseteq 1..project_seq
    /\ Len(deployments) = Len(sim_pc)
    /\ Len(deployments) = Len(first_cancel)
    /\ \A d \in 1..Len(deployments) : deployments[d].status \in DeploymentStatus

\* ---- middleware/rate_limiter.py ----
startswith(path, prefix) ==
    Len(prefix) <= Len(path) /\ SubSeq(path, 1, Len(prefix)) = prefix

\* only the path "/health" itself skipped
SkipsRateLimit_ExactPath(path) == path = Health

\* line 45
SkipsRateLimit(path) == startswith(path, Health)

\* the list left as it is, nothing pruned
RecentRequests_KeepsAll(c) == requests[c]

\* lines 18-24: the stamps less than 60 seconds old
RecentRequests(c) ==
    SelectSeq(requests[c], LAMBDA req_time : now - req_time < Window)

\* '>' written for '>='
LimitReached_OffByOne(c) == Len(RecentRequests(c)) > requests_per_minute

\* line 27
LimitReached(c) == Len(RecentRequests(c)) >= requests_per_minute

min(stamps) ==
    CHOOSE t \in {stamps[i] : i \in 1..Len(stamps)} :
        \A i \in 1..Len(stamps) : t <= stamps[i]

\* int(x) for x >= 0 counted in ticks: the whole seconds in x
int(ticks) == ticks \div TicksPerSecond

\* lines 29-30
retry_after(c) == int(Window - (now - min(RecentRequests(c))))

\* the append of a request landing on the list read before a request of the
\* same instant appended its stamp, whose stamp is lost
rate_limit_middleware_LostUpdate(c, path) ==
    /\ IF SkipsRateLimit(path)
       THEN /\ requests' = requests
            /\ rate_response' = RateReply(c, path, 200, NoHeader)
       ELSE IF LimitReached(c)
       THEN /\ requests' = [requests EXCEPT ![c] = RecentRequests(c)]
            /\ rate_response' = RateReply(c, path, 429, retry_after(c))
       ELSE /\ requests' = [requests EXCEPT ![c] =
                    IF \E i \in 1..Len(requests[c]) : requests[c][i] = now
                    THEN RecentRequests(c)
                    ELSE Append(RecentRequests(c), now)]
            /\ rate_response' = RateReply(c, path, 200, NoHeader)
    /\ UNCHANGED <<now, deploy_vars, auth_vars, cache_keys, analytics_vars>>

\* lines 42-69 with is_rate_limited (lines 13-35).  is_rate_limited is a plain
\* function called from the coroutine without an await in between: the event
\* loop runs it to its end before the middleware of another request starts.
rate_limit_middleware(c, path) ==
    /\ IF SkipsRateLimit(path)
       THEN /\ requests' = requests
            /\ rate_response' = RateReply(c, path, 200, NoHeader)
       ELSE IF LimitReached(c)
       THEN /\ requests' = [requests EXCEPT ![c] = RecentRequests(c)]
            /\ rate_response' = RateReply(c, path, 429, retry_after(c))
       ELSE /\ requests' = [requests EXCEPT ![c] = Append(RecentRequests(c), now)]
            /\ rate_response' = RateReply(c, path, 200, NoHeader)
    /\ UNCHANGED <<now, deploy_vars, auth_vars, cache_keys, analytics_vars>>

\* time passing between two requests
time_passes(gap) ==
    /\ now + gap <= MaxNow
    /\ now' = now + gap
    /\ UNCHANGED <<requests, rate_response, deploy_vars, auth_vars, cache_keys, analytics_vars>>

RateNext ==
    \/ \E c \in Clients, path \in Paths : rate_limit_middleware(c, path)
    \/ \E gap \in Gaps : time_passes(gap)

RateSpec == Init /\ [][RateNext]_vars

\* a client at its limit that keeps sending requests: the time between two of
\* its requests, a tick or a second
limited_client_waits(gap) ==
    /\ \E c \in Clients : LimitReached(c)
    /\ time_passes(gap)

RetryGaps == {1, TicksPerSecond}

RetryNext ==
    \/ RateNext
    \/ \E gap \in RetryGaps : limited_client_waits(gap)

RetrySpec == Init /\ [][RetryNext]_vars

\* ---- dependencies.py, routers/auth.py ----
\* a database in which nobody has registered yet
RegisterInit ==
    /\ DeployInit
    /\ RateInit
    /\ users = <<>>
    /\ SessionsInit
    /\ AnalyticsIdle

rest_of_gateway == <<deploy_vars, rate_vars, cache_keys, analytics_vars>>

UserByEmail(email) == {u \in DOMAIN users : users[u].email = email}

\* the users.email column without its unique index
UniqueEmailViolated_NoIndex(email) == FALSE

\* models.py line 10: unique=True
UniqueEmailViolated(email) == UserByEmail(email) # {}

\* lines 16-40: the lookup by email and the password checks
register_query(s, email, strong) ==
    /\ pending[s] = NoRequest
    /\ IF UserByEmail(email) # {}
       THEN /\ auth_response' = AuthReply("register", 400, "Email already registered", 0, NoToken, NoToken)
            /\ pending' = pending
       ELSE IF ~strong
       THEN /\ auth_response' = AuthReply("register", 400, "Weak password", 0, NoToken, NoToken)
            /\ pending' = pending
       ELSE /\ pending' = [pending EXCEPT ![s] = [NoRequest EXCEPT !.op = "register", !.email = email]]
            /\ auth_response' = auth_response
    /\ UNCHANGED <<users, refresh_tokens, clock, logged_out, rest_of_gateway>>

\* lines 42-49: the insert and its commit
register_commit(s) ==
    /\ pending[s].op = "register"
    /\ LET email == pending[s].email
           id == Cardinality(DOMAIN users) + 1
       IN IF UniqueEmailViolated(email)
          THEN /\ users' = users
               /\ auth_response' = AuthReply("register", 500, "IntegrityError", 0, NoToken, NoToken)
          ELSE /\ id \in Users
               /\ users' = users @@ (id :> NewUser(email))
               /\ auth_response' = AuthReply("register", 201, email, id, NoToken, NoToken)
    /\ pending' = [pending EXCEPT ![s] = NoRequest]
    /\ UNCHANGED <<refresh_tokens, clock, logged_out, rest_of_gateway>>

create_access_token(u) == Jwt(u, "access", clock + ACCESS_TOKEN_EXPIRE)
create_refresh_token(u) == Jwt(u, "refresh", clock + REFRESH_TOKEN_EXPIRE)

\* db.add(RefreshToken(token=...)); db.commit(): the token column is unique
StoreRefreshToken(op, u) ==
    IF create_refresh_token(u) \in refresh_tokens
    THEN /\ refresh_tokens' = refresh_tokens
         /\ auth_response' = AuthReply(op, 500, "IntegrityError", u, NoToken, NoToken)
    ELSE /\ Cardinality(refresh_tokens) < MaxTokens
         /\ refresh_tokens' = refresh_tokens \cup {create_refresh_token(u)}
         /\ auth_response' = AuthReply(op, 200, "bearer", u, create_access_token(u), create_refresh_token(u))

\* lines 51-83; password_ok is verify_password on the stored hash
login(email, password_ok) ==
    /\ IF UserByEmail(email) = {} \/ ~password_ok
       THEN /\ auth_response' = AuthReply("login", 401, "Incorrect email or password", 0, NoToken, NoToken)
            /\ refresh_tokens' = refresh_tokens
       ELSE LET u == CHOOSE id \in UserByEmail(email) : TRUE
            IN IF ~users[u].is_active
               THEN /\ auth_response' = AuthReply("login", 400, "Inactive user", u, NoToken, NoToken)
                    /\ refresh_tokens' = refresh_tokens
               ELSE StoreRefreshToken("login", u)
    /\ UNCHANGED <<users, clock, pending, logged_out, rest_of_gateway>>

\* the tokens a client can present
Tokens ==
    {Jwt(u, "refresh", t + REFRESH_TOKEN_EXPIRE) : u \in Users, t \in Instants}
        \cup {Jwt(u, "access", t + ACCESS_TOKEN_EXPIRE) : u \in Users, t \in Instants}
        \cup {Garbage}

\* jwt.decode raises for a bad signature and for exp < now
Decodes(token) == token # Garbage /\ ~(token.exp < clock)

\* line 73
IsRefreshType(token) == token.type = "refresh"

\* the token not looked up in the refresh_tokens table
RowUnexpired_NotLookedUp(token, moment_passed) ==
    clock < token.exp \/ (clock = token.exp /\ ~moment_passed)

\* lines 81-84: the row exists and expires_at > utcnow().  expires_at is taken
\* a moment after the token's exp, so within the second of exp the row
\* counts as unexpired only while that moment has not passed.
RowUnexpired(token, moment_passed) ==
    /\ token \in refresh_tokens
    /\ clock < token.exp \/ (clock = token.exp /\ ~moment_passed)

\* dependencies.py lines 70-95
verify_refresh_token(token, moment_passed) ==
    IF ~Decodes(token) THEN "Invalid token"
    ELSE IF ~IsRefreshType(token) THEN "Invalid token type"
    ELSE IF ~RowUnexpired(token, moment_passed) THEN "Invalid or expired refresh token"
    ELSE IF token.sub \notin DOMAIN users \/ ~users[token.sub].is_active THEN "User not found or inactive"
    ELSE "ok"

\* auth.py line 88
refresh_verify(s, token, moment_passed) ==
    /\ pending[s] = NoRequest
    /\ IF verify_refresh_token(token, moment_passed) = "ok"
       THEN /\ pending' = [pending EXCEPT ![s] =
                    [NoRequest EXCEPT !.op = "refresh", !.user = token.sub, !.token = token]]
            /\ auth_response' = auth_response
       ELSE /\ pending' = pending
            /\ auth_response' = AuthReply("refresh", 400, verify_refresh_token(token, moment_passed),
                                          0, NoToken, NoToken)
    /\ UNCHANGED <<users, refresh_tokens, clock, logged_out, rest_of_gateway>>

\* auth.py lines 90-108
refresh_commit(s) ==
    /\ pending[s].op = "refresh"
    /\ StoreRefreshToken("refresh", pending[s].user)
    /\ pending' = [pending EXCEPT ![s] = NoRequest]
    /\ UNCHANGED <<users, clock, logged_out, rest_of_gateway>>

\* auth.py lines 110-119.  A refresh token in a client's hands was issued: it
\* is stored, or it was stored until a logout.
logout(token) ==
    /\ token.type = "refresh" => token \in refresh_tokens \cup logged_out
    /\ Cardinality(logged_out \cup {token}) <= MaxLogouts
    /\ refresh_tokens' = refresh_tokens \ {token}
    /\ logged_out' = logged_out \cup {token}
    /\ auth_response' = AuthReply("logout", 200, "Successfully logged out", 0, NoToken, NoToken)
    /\ UNCHANGED <<users, clock, pending, rest_of_gateway>>

\* ---- dependencies.py: get_current_user and require_admin, as status codes ----
get_current_user(u) ==
    IF u \notin DOMAIN users THEN 401
    ELSE IF ~users[u].is_active THEN 400
    ELSE 200

\* the is_admin test left out
require_admin_AnyUser(u) == get_current_user(u)

\* lines 41-51
require_admin(u) ==
    IF get_current_user(u) # 200 THEN get_current_user(u)
    ELSE IF ~users[u].is_admin THEN 403
    ELSE 200

\* ---- routers/admin.py ----
\* lines 40-72: deactivate_user (active = FALSE) and activate_user (active = TRUE)
set_active(op, admin, u, active) ==
    /\ IF require_admin(admin) # 200
       THEN /\ response' = Reply(op, admin, u, require_admin(admin), NoBody)
            /\ users' = users
       ELSE IF u \notin DOMAIN users
       THEN /\ response' = Reply(op, admin, u, 404, NoBody)
            /\ users' = users
       ELSE /\ response' = Reply(op, admin, u, 200, NoBody)
            /\ users' = [users EXCEPT ![u].is_active = active]
    /\ UNCHANGED <<deploy_vars_but_response, refresh_tokens, clock, pending, auth_response, logged_out, rate_vars, cache_keys, analytics_vars>>

deactivate_user(admin, u) == set_active("deactivate_user", admin, u, FALSE)
activate_user(admin, u) == set_active("activate_user", admin, u, TRUE)

\* datetime.utcnow() moving on to a later instant
clock_advances(t) ==
    /\ t > clock
    /\ clock' = t
    /\ UNCHANGED <<users, refresh_tokens, pending, auth_response, logged_out, rest_of_gateway>>

Emails == {EmailList[i] : i \in 1..NEmails}

RegisterNext ==
    \/ \E s \in PendingSlots, email \in Emails, strong \in BOOLEAN : register_query(s, email, strong)
    \/ \E s \in PendingSlots : register_commit(s)

RegisterSpec == RegisterInit /\ [][RegisterNext]_vars

\* the users that are admin when the sessions start
Admins == {u \in Users : Registered[u].is_admin}

\* one refresh at a time between its verification and its commit
Refreshing == {1}

SessionNext ==
    \/ \E u \in Users, password_ok \in BOOLEAN : login(Email(u), password_ok)
    \/ \E s \in Refreshing, token \in Tokens, moment_passed \in BOOLEAN :
            refresh_verify(s, token, moment_passed)
    \/ \E s \in Refreshing : refresh_commit(s)
    \/ \E token \in Tokens : logout(token)
    \/ \E admin \in Admins, u \in Users : deactivate_user(admin, u)
    \/ \E t \in Instants : clock_advances(t)

SessionSpec == Init /\ [][SessionNext]_vars

\* ---- routers/admin.py, routers/cache.py, routers/analytics.py: admin area ----
AdminData == [status |-> "data", logs |-> <<>>]

\* an endpoint that only reads, behind Depends(require_admin)
AdminOnlyRead(op, u) ==
    /\ response' = Reply(op, u, 0, require_admin(u),
                         IF require_admin(u) = 200 THEN AdminData ELSE NoBody)
    /\ UNCHANGED <<deploy_vars_but_response, gateway_vars>>

list_all_users(u) == AdminOnlyRead("list_all_users", u)
get_system_stats(u) == AdminOnlyRead("get_system_stats", u)
list_all_deployments(u) == AdminOnlyRead("list_all_deployments", u)
list_all_projects(u) == AdminOnlyRead("list_all_projects", u)
get_cache_stats(u) == AdminOnlyRead("get_cache_stats", u)
list_cache_keys(u) == AdminOnlyRead("list_cache_keys", u)
get_admin_overview(u) == AdminOnlyRead("get_admin_overview", u)

\* admin.py lines 25-38
get_user(admin, u) ==
    /\ response' = IF require_admin(admin) # 200 THEN Reply("get_user", admin, u, require_admin(admin), NoBody)
                   ELSE IF u \notin DOMAIN users THEN Reply("get_user", admin, u, 404, NoBody)
                   ELSE Reply("get_user", admin, u, 200, AdminData)
    /\ UNCHANGED <<deploy_vars_but_response, gateway_vars>>

\* make_admin lines 74-86 and remove_admin lines 91-109: the dependency, the
\* lookup of the user and the test that it is not the caller
admin_flag_query(s, op, admin, u) ==
    /\ pending[s] = NoRequest
    /\ IF require_admin(admin) # 200
       THEN /\ response' = Reply(op, admin, u, require_admin(admin), NoBody)
            /\ pending' = pending
       ELSE IF u \notin DOMAIN users
       THEN /\ response' = Reply(op, admin, u, 404, NoBody)
            /\ pending' = pending
       ELSE IF op = "remove_admin" /\ u = admin
       THEN /\ response' = Reply(op, admin, u, 400, NoBody)
            /\ pending' = pending
       ELSE /\ pending' = [pending EXCEPT ![s] =
                    [NoRequest EXCEPT !.op = op, !.user = admin, !.target = u,
                                      !.is_admin = users[u].is_admin]]
            /\ response' = response
    /\ UNCHANGED <<deploy_vars_but_response, users, refresh_tokens, clock, auth_response, logged_out, rate_vars, cache_keys, analytics_vars>>

make_admin(s, admin, u) == admin_flag_query(s, "make_admin", admin, u)
remove_admin(s, admin, u) == admin_flag_query(s, "remove_admin", admin, u)

\* make_admin lines 87-89 and remove_admin lines 110-112: the write and its
\* commit.  The session flushes an UPDATE only for an attribute whose value
\* differs from the one it loaded, so assigning the value the row was read
\* with writes nothing.
admin_flag_commit(s) ==
    /\ pending[s].op \in {"make_admin", "remove_admin"}
    /\ users' = IF pending[s].is_admin # (pending[s].op = "make_admin")
                THEN [users EXCEPT ![pending[s].target].is_admin = (pending[s].op = "make_admin")]
                ELSE users
    /\ response' = Reply(pending[s].op, pending[s].user, pending[s].target, 200, NoBody)
    /\ pending' = [pending EXCEPT ![s] = NoRequest]
    /\ UNCHANGED <<deploy_vars_but_response, refresh_tokens, clock, auth_response, logged_out, rate_vars, cache_keys, analytics_vars>>

\* admin.py lines 198-213; db.delete(project) as in delete_project
delete_project_admin(admin, p) ==
    /\ IF require_admin(admin) # 200
       THEN /\ projects' = projects
            /\ response' = Reply("delete_project_admin", admin, p, require_admin(admin), NoBody)
       ELSE IF p \notin DOMAIN projects
       THEN /\ projects' = projects
            /\ response' = Reply("delete_project_admin", admin, p, 404, NoBody)
       ELSE IF ProjectDeployments(p) # {}
       THEN /\ projects' = projects
            /\ response' = Reply("delete_project_admin", admin, p, 500, NoBody)
       ELSE /\ projects' = [q \in DOMAIN projects \ {p} |-> projects[q]]
            /\ response' = Reply("delete_project_admin", admin, p, 200, NoBody)
    /\ UNCHANGED <<project_seq, deployments, sim_pc, inflight, first_cancel, gateway_vars>>

\* cache.py lines 21-33, pattern "*"
clear_cache(u) ==
    /\ response' = Reply("clear_cache", u, 0, require_admin(u), NoBody)
    /\ cache_keys' = IF require_admin(u) = 200 THEN {} ELSE cache_keys
    /\ UNCHANGED <<deploy_vars_but_response, rate_vars, auth_vars, analytics_vars>>

\* cache.py lines 55-66
delete_cache_key(u, key) ==
    /\ response' = Reply("delete_cache_key", u, 0, require_admin(u), NoBody)
    /\ cache_keys' = IF require_admin(u) = 200 THEN cache_keys \ {key} ELSE cache_keys
    /\ UNCHANGED <<deploy_vars_but_response, rate_vars, auth_vars, analytics_vars>>

\* cache.py lines 68-76: no dependency at all
cache_health_check(u) ==
    /\ response' = Reply("cache_health_check", u, 0, 200, AdminData)
    /\ UNCHANGED <<deploy_vars_but_response, gateway_vars>>

\* get_current_user passes for the users that exist and are active
ActiveUsers == {u \in DOMAIN users : users[u].is_active}

AdminSlots == 1..MaxAdminRequests

AdminNext ==
    \/ \E u \in Users : list_all_users(u)
    \/ \E u \in Users : get_system_stats(u)
    \/ \E u \in Users : list_all_deployments(u)
    \/ \E u \in Users : list_all_projects(u)
    \/ \E u \in Users : get_cache_stats(u)
    \/ \E u \in Users : list_cache_keys(u)
    \/ \E u \in Users : get_admin_overview(u)
    \/ \E admin \in Users, u \in Users : get_user(admin, u)
    \/ \E admin \in Users, u \in Users : deactivate_user(admin, u)
    \/ \E admin \in Users, u \in Users : activate_user(admin, u)
    \/ \E s \in AdminSlots, admin \in Users, u \in Users : make_admin(s, admin, u)
    \/ \E s \in AdminSlots, admin \in Users, u \in Users : remove_admin(s, admin, u)
    \/ \E s \in AdminSlots : admin_flag_commit(s)
    \/ \E admin \in Users, p \in ProjectIds : delete_project_admin(admin, p)
    \/ \E u \in Users : clear_cache(u)
    \/ \E u \in Users, key \in CacheKeys : delete_cache_key(u, key)
    \/ \E u \in Users : cache_health_check(u)
    \/ \E u \in ActiveUsers, n \in Names : create_project(u, n)
    \/ \E u \in ActiveUsers, p \in ProjectIds : delete_project(u, p)
    \/ \E u \in ActiveUsers, p \in ProjectIds : trigger_deployment(u, p)

AdminSpec == Init /\ [][AdminNext]_vars

\* ---- utils/validation.py ----
\* timedelta.days: the whole days of a span, the rest of it dropped
days(seconds) == seconds \div SecondsPerDay

Verdict(is_valid, error, raised) == [is_valid |-> is_valid, error |-> error, raised |-> raised]

\* lines 117-133; fromisoformat raises ValueError on a string that is no ISO
\* date, which is caught, and comparing a datetime that carries an offset with
\* one that carries none raises TypeError, which is not
validate_date_range(start_date, end_date) ==
    IF start_date.kind # "iso" \/ end_date.kind # "iso"
    THEN Verdict(FALSE, "Invalid date format. Use ISO format: YYYY-MM-DDTHH:MM:SS", "none")
    ELSE IF start_date.aware # end_date.aware
    THEN Verdict(FALSE, "", "TypeError")
    ELSE IF start_date.at > end_date.at
    THEN Verdict(FALSE, "Start date must be before end date", "none")
    ELSE IF days(end_date.at - start_date.at) > MaxRangeDays
    THEN Verdict(FALSE, "Date range cannot exceed 1 year", "none")
    ELSE Verdict(TRUE, "Valid date range", "none")

\* ---- routers/analytics.py ----
\* Percentages and durations are reported rounded to two decimals; the model
\* carries them in hundredths.  a / b raises ZeroDivisionError when b is 0.
Quotient(a, b) ==
    [raised |-> b = 0, hundredths |-> IF b = 0 THEN 0 ELSE (200 * a + b) \div (2 * b)]
Exact(a) == [raised |-> FALSE, hundredths |-> 100 * a]

RECURSIVE sum(_)
sum(seq) == IF seq = <<>> THEN 0 ELSE Head(seq) + sum(Tail(seq))

Successful(rows) == SelectSeq(rows, LAMBDA r : r.status = SUCCESS)

\* the division without its guard
success_rate_Unguarded(rows) == Quotient(Len(Successful(rows)) * 100, Len(rows))

\* lines 58-60, and the same expression at lines 119-123 and 244-246
success_rate(rows) ==
    IF Len(rows) > 0 THEN Quotient(Len(Successful(rows)) * 100, Len(rows)) ELSE Exact(0)

\* lines 62-67 and 240-242: the durations of the rows that have both timestamps
deployment_times(rows) ==
    LET timed == SelectSeq(rows, LAMBDA r : r.completed_at # NULL /\ r.started_at # NULL)
    IN [i \in 1..Len(timed) |-> timed[i].completed_at - timed[i].started_at]

\* lines 69 and 249
avg_deployment_time(rows) ==
    IF deployment_times(rows) # <<>>
    THEN Quotient(sum(deployment_times(rows)), Len(deployment_times(rows)))
    ELSE Exact(0)

\* lines 140-143
user_growth(new_users_this_month, new_users_last_month) ==
    IF new_users_last_month > 0
    THEN Quotient((new_users_this_month - new_users_last_month) * 100, new_users_last_month)
    ELSE Exact(100)

\* lines 27-34 and 48-88, 214-221 and 229-249: the range check and the
\* statistics over the rows the range selected
DateRangeStats(op, u, start_date, end_date) ==
    LET checked == validate_date_range(start_date, end_date)
        rate == success_rate(query.rows)
        avg == avg_deployment_time(query.rows)
    IN IF checked.raised # "none" THEN AnalyticsReply(op, u, 500, checked.raised, NoStats)
       ELSE IF ~checked.is_valid THEN AnalyticsReply(op, u, 400, checked.error, NoStats)
       ELSE IF rate.raised \/ avg.raised THEN AnalyticsReply(op, u, 500, "ZeroDivisionError", NoStats)
       ELSE AnalyticsReply(op, u, 200, "",
                [days |-> days(end_date.at - start_date.at),
                 total_deployments |-> Len(query.rows),
                 success_rate |-> rate.hundredths,
                 avg_deployment_time_seconds |-> avg.hundredths,
                 user_growth_percentage |-> 0])

\* lines 22-23 and 209-210
DefaultEnd == IF query.end_date.kind = "none" THEN Iso(clock, FALSE) ELSE query.end_date

\* lines 13-100
get_user_analytics(u) ==
    /\ report' = IF get_current_user(u) # 200
                 THEN AnalyticsReply("get_user_analytics", u, get_current_user(u), "", NoStats)
                 ELSE DateRangeStats("get_user_analytics", u,
                        IF query.start_date.kind = "none"
                        THEN Iso(clock - DefaultRangeDays * SecondsPerDay, FALSE)
                        ELSE query.start_date,
                        DefaultEnd)
    /\ UNCHANGED <<deploy_vars, rate_vars, auth_vars, cache_keys, query>>

\* lines 190-292; the default start is the created_at of the project, read
\* from a column with time zone: it carries an offset or not as the database
\* returns it
get_project_analytics(u, p, created_aware) ==
    /\ report' = IF get_current_user(u) # 200
                 THEN AnalyticsReply("get_project_analytics", u, get_current_user(u), "", NoStats)
                 ELSE IF ~OwnsProject(u, p)
                 THEN AnalyticsReply("get_project_analytics", u, 404, "Project not found", NoStats)
                 ELSE DateRangeStats("get_project_analytics", u,
                        IF query.start_date.kind = "none"
                        THEN Iso(clock, created_aware)
                        ELSE query.start_date,
                        DefaultEnd)
    /\ UNCHANGED <<deploy_vars, rate_vars, auth_vars, cache_keys, query>>

CreatedIn(month) == {u \in DOMAIN users : query.created_at[u] = month}

\* lines 102-188: the body get_admin_overview computes once require_admin let
\* the request in
get_admin_overview_stats(u) ==
    LET rate == success_rate(query.rows)
        growth == user_growth(Cardinality(CreatedIn("this")), Cardinality(CreatedIn("last")))
    IN /\ report' =
            IF require_admin(u) # 200
            THEN AnalyticsReply("get_admin_overview", u, require_admin(u), "", NoStats)
            ELSE IF rate.raised \/ growth.raised
            THEN AnalyticsReply("get_admin_overview", u, 500, "ZeroDivisionError", NoStats)
            ELSE AnalyticsReply("get_admin_overview", u, 200, "",
                    [days |-> 0,
                     total_deployments |-> Len(query.rows),
                     success_rate |-> rate.hundredths,
                     avg_deployment_time_seconds |-> 0,
                     user_growth_percentage |-> growth.hundredths])
       /\ UNCHANGED <<deploy_vars, rate_vars, auth_vars, cache_keys, query>>

\* the requests considered: ranges of a year exactly, a second more, a second
\* less than a day more and a day more, a range that ends before it starts,
\* dates left out or malformed, with and without a UTC offset
EndInstants ==
    {0 - MaxSeconds, 0,
     MaxRangeDays * SecondsPerDay, MaxRangeDays * SecondsPerDay + MaxSeconds,
     (MaxRangeDays + 1) * SecondsPerDay - MaxSeconds, (MaxRangeDays + 1) * SecondsPerDay}
StartDates == {NoDate, BadDate} \cup {Iso(0, aware) : aware \in BOOLEAN}
EndDates == {NoDate, BadDate} \cup {Iso(at, aware) : at \in EndInstants, aware \in BOOLEAN}
RowKinds == {Row(SUCCESS, 1, 3), Row(FAILED, 1, 4), Row(PENDING, 1, NULL)}
RowLists == UNION {[1..n -> RowKinds] : n \in 0..MaxRows}
Queries ==
    [start_date : StartDates, end_date : EndDates, rows : RowLists,
     created_at : [Users -> Months]]

AnalyticsInit ==
    /\ DeployInit
    /\ RateInit
    /\ users = Registered
    /\ SessionsInit
    /\ query \in Queries
    /\ report = AnalyticsReply("none", 0, 0, "", NoStats)

AnalyticsNext ==
    \/ \E u \in Users : get_user_analytics(u)
    \/ \E u \in Users, p \in ProjectIds, created_aware \in BOOLEAN : get_project_analytics(u, p, created_aware)
    \/ \E u \in Users : get_admin_overview_stats(u)
    \/ \E u \in Users : create_project(u, "app")

AnalyticsSpec == AnalyticsInit /\ [][AnalyticsNext]_vars

\* ---- dependencies.py get_current_user on the Bearer credential, routers/users.py ----
\* lines 24-32: the sub claim of the credential; jwt.decode checks the
\* signature and exp, and nothing reads the type claim.  0 stands for the
\* credentials_exception.
BearerSubject(token) == IF Decodes(token) THEN token.sub ELSE 0

\* the tokens a client holds: refresh tokens that are stored, the access token
\* of the last login or refresh, and any string of its own making
Held == refresh_tokens \cup {auth_response.access_token, Garbage}

\* users.py lines 12-14 behind get_current_user
get_current_user_info(token) ==
    /\ token \in Held
    /\ response' = Reply("get_current_user_info", BearerSubject(token), 0,
                         get_current_user(BearerSubject(token)),
                         IF get_current_user(BearerSubject(token)) = 200 THEN AdminData ELSE NoBody)
    /\ UNCHANGED <<deploy_vars_but_response, gateway_vars>>

BearerNext ==
    \/ \E u \in Users, password_ok \in BOOLEAN : login(Email(u), password_ok)
    \/ \E token \in Tokens : get_current_user_info(token)
    \/ \E t \in Instants : clock_advances(t)

BearerSpec == Init /\ [][BearerNext]_vars

\* ---- make-admin and remove-admin requests in flight together ----
\* the handlers are plain functions run on worker threads, each with a
\* database session of its own
FlagSlots == 1..MaxFlagRequests

FlagNext ==
    \/ \E s \in FlagSlots, admin \in Users, u \in Users : make_admin(s, admin, u)
    \/ \E s \in FlagSlots, admin \in Users, u \in Users : remove_admin(s, admin, u)
    \/ \E s \in FlagSlots : admin_flag_commit(s)

FlagSpec == Init /\ [][FlagNext]_vars

\* ---- several deployments of one project under way together ----
Runs == 1..MaxRuns

\* user 1 has created a project and triggered MaxRuns deployments of it; none
\* of the background tasks has passed its initial delay yet
RunsInit ==
    /\ projects = (1 :> [user_id |-> 1, name |-> "app"])
    /\ project_seq = 1
    /\ deployments = [d \in Runs |-> NewDeployment(1)]
    /\ sim_pc = [d \in Runs |-> "initial_delay"]
    /\ inflight = [s \in Slots |-> Idle]
    /\ response = Reply("trigger_deployment", 1, 1, 201, BodyOf(NewDeployment(1)))
    /\ first_cancel = [d \in Runs |-> "none"]
    /\ RateInit
    /\ users = Registered
    /\ SessionsInit
    /\ AnalyticsIdle

RunsNext ==
    \/ \E s \in Slots, u \in Users, d \in Runs : cancel_query(s, u, d)
    \/ \E s \in Slots : cancel_commit(s)
    \/ \E d \in Runs : simulate_deployment(d)

RunsSpec == RunsInit /\ [][RunsNext]_vars

\* ---- every request that reads or writes the projects table ----
ProjectNext ==
    \/ AdminNext
    \/ \E u \in ActiveUsers, p \in ProjectIds : get_project(u, p)
    \/ \E u \in ActiveUsers, p \in ProjectIds, n \in Names : update_project(u, p, n)

ProjectSpec == Init /\ [][ProjectNext]_vars

\* ======================= properties =======================
Stored == 1..Len(deployments)

IsPrefix(a, b) == Len(a) <= Len(b) /\ SubSeq(b, 1, Len(a)) = a

Contains(log, lines) ==
    \E i \in 1..Len(log) : i + Len(lines) - 1 <= Len(log) /\ SubSeq(log, i, i + Len(lines) - 1) = lines

\* the transition table of the specification
TransitionTable ==
    {<<PENDING, BUILDING>>, <<BUILDING, DEPLOYING>>, <<DEPLOYING, SUCCESS>>, <<DEPLOYING, FAILED>>,
     <<PENDING, CANCELLED>>, <<BUILDING, CANCELLED>>, <<DEPLOYING, CANCELLED>>}

\* ownership as the specification states it, written without the handlers' queries
ProjectOf(u, p) == p \in DOMAIN projects /\ projects[p].user_id = u
ForeignProject(u, p) == p \in DOMAIN projects /\ projects[p].user_id # u
ForeignDeployment(u, d) == d \in Stored /\ ForeignProject(u, deployments[d].project_id)

\* C1: every change of a deployment's persisted status is an edge of the
\* transition table; in particular SUCCESS and FAILED are never left.
C1_StatusFollowsTable ==
    [][\A d \in Stored :
          deployments'[d].status # deployments[d].status
              => <<deployments[d].status, deployments'[d].status>> \in TransitionTable]_vars

\* C2: once the persisted status is CANCELLED no step of the deployment's
\* simulator changes it.
C2_SimulatorKeepsCancelled ==
    [][\A d \in Stored :
          (deployments[d].status = CANCELLED /\ simulate_deployment(d))
              => deployments'[d].status = CANCELLED]_vars

\* C3: completed_at is non-null exactly when the status is SUCCESS, FAILED or
\* CANCELLED.
C3_CompletedIffTerminal ==
    \A d \in Stored :
        (deployments[d].completed_at # NULL) <=> (deployments[d].status \in {SUCCESS, FAILED, CANCELLED})

\* C4: a cancel request of the owner that finds the deployment in SUCCESS,
\* FAILED or CANCELLED (the status it reads is the persisted one) is answered
\* 400 and changes neither the deployment's status, logs nor completed_at.
C4_TerminalCancelConflict ==
    [][\A s \in Slots :
          /\ \A u \in Users, d \in Stored :
                (cancel_query(s, u, d) /\ ProjectOf(u, deployments[d].project_id))
                    => /\ inflight'[s].busy
                       /\ inflight'[s].snap.status = deployments[d].status
          /\ (cancel_commit(s) /\ inflight[s].snap.status \in {SUCCESS, FAILED, CANCELLED})
                => /\ response'.op = "cancel_deployment"
                   /\ response'.code = 400
                   /\ deployments' = deployments]_vars

C4_Witness ==
    /\ response.op = "cancel_deployment"
    /\ response.code = 400
    /\ response.target \in Stored
    /\ deployments[response.target].status = SUCCESS
    /\ ProjectOf(response.user, deployments[response.target].project_id)

\* C5: a cancel request of the owner on a PENDING, BUILDING or DEPLOYING
\* deployment succeeds and in that step sets CANCELLED, stamps completed_at and
\* appends the cancellation line; at most one cancel per deployment succeeds.
C5_CancelSucceedsOnce ==
    [][\A s \in Slots :
          (cancel_commit(s) /\ inflight[s].snap.status \in {PENDING, BUILDING, DEPLOYING})
              => LET d == inflight[s].id
                 IN /\ response'.code = 200
                    /\ deployments'[d].status = CANCELLED
                    /\ deployments'[d].completed_at # NULL
                    /\ deployments'[d].logs = inflight[s].snap.logs \o LogCancelled
                    /\ first_cancel[d] = "none"]_vars

\* C6: trigger on a project that does not exist or belongs to another user is
\* answered 404 and creates nothing; otherwise exactly one deployment is added,
\* it is PENDING, its simulator has not taken a step, and the response shows
\* PENDING.
C6_Trigger ==
    [][\A u \in Users, p \in ProjectIds :
          trigger_deployment(u, p)
              => /\ response'.op = "trigger_deployment"
                 /\ IF ProjectOf(u, p)
                    THEN /\ response'.code = 201
                         /\ response'.body.status = PENDING
                         /\ Len(deployments') = Len(deployments) + 1
                         /\ SubSeq(deployments', 1, Len(deployments)) = deployments
                         /\ deployments'[Len(deployments')].project_id = p
                         /\ deployments'[Len(deployments')].status = PENDING
                         /\ sim_pc'[Len(deployments')] = "initial_delay"
                    ELSE /\ response'.code = 404
                         /\ deployments' = deployments
                         /\ sim_pc' = sim_pc]_vars

C6_Witness ==
    /\ Len(deployments) >= 1
    /\ response.op = "trigger_deployment"
    /\ response.code = 404
    /\ ForeignProject(response.user, response.target)

\* C7: a request of user A to get, update or delete a project of user B, to
\* trigger a deployment on it, or to get, read the logs of or cancel a
\* deployment under it is answered 404 and changes no project and no deployment.
C7_OwnerIsolation ==
    [][/\ \A u \in Users, p \in ProjectIds :
             (/\ ForeignProject(u, p)
              /\ \/ get_project(u, p)
                 \/ \E n \in Names : update_project(u, p, n)
                 \/ delete_project(u, p)
                 \/ trigger_deployment(u, p))
                 => /\ response'.code = 404
                    /\ projects' = projects
                    /\ deployments' = deployments
       /\ \A u \in Users, d \in DeploymentIds :
             (/\ ForeignDeployment(u, d)
              /\ \/ get_deployment(u, d)
                 \/ get_deployment_logs(u, d)
                 \/ \E s \in Slots : cancel_query(s, u, d))
                 => /\ response'.code = 404
                    /\ response'.body = NoBody
                    /\ projects' = projects
                    /\ deployments' = deployments
                    /\ inflight' = inflight]_vars

C7_Witness ==
    /\ response.op = "cancel_deployment"
    /\ response.code = 404
    /\ ForeignDeployment(response.user, response.target)
    /\ deployments[response.target].status = PENDING

\* C8: the log is append-only: every persisted log extends the one before it,
\* so its first line is always the 'Deployment queued' line of trigger.
C8_LogAppendOnly ==
    [][\A d \in Stored :
          /\ IsPrefix(deployments[d].logs, deployments'[d].logs)
          /\ deployments'[d].logs[1] = LogQueued[1]]_vars

\* C9: a deployment cancelled while PENDING ends, when its background task
\* has finished, with status CANCELLED, the cancellation line in its log and
\* no build or deploy text after that line.
C9_CancelledWhilePending ==
    \A d \in Stored :
        (first_cancel[d] = PENDING /\ sim_pc[d] = "done")
            => /\ deployments[d].status = CANCELLED
               /\ Contains(deployments[d].logs, LogCancelled)
               /\ SubSeq(deployments[d].logs, Len(deployments[d].logs) - 1, Len(deployments[d].logs))
                      = LogCancelled

NeverCancelled(d) == d \in Stored /\ first_cancel[d] = "none"
WasCancelled(d) == d \in Stored /\ first_cancel[d] # "none"

\* C10: with the background task scheduled fairly, a triggered deployment that
\* is never cancelled goes from PENDING to BUILDING, from BUILDING to DEPLOYING
\* and from DEPLOYING to SUCCESS or FAILED.
C10_ReachesOutcome ==
    \A d \in DeploymentIds :
        /\ (NeverCancelled(d) /\ deployments[d].status = PENDING)
               ~> (WasCancelled(d) \/ (d \in Stored /\ deployments[d].status = BUILDING))
        /\ (NeverCancelled(d) /\ deployments[d].status = BUILDING)
               ~> (WasCancelled(d) \/ (d \in Stored /\ deployments[d].status = DEPLOYING))
        /\ (NeverCancelled(d) /\ deployments[d].status = DEPLOYING)
               ~> (WasCancelled(d) \/ (d \in Stored /\ deployments[d].status \in {SUCCESS, FAILED}))

C10_Witness ==
    \E d \in Stored :
        /\ first_cancel[d] = "none"
        /\ sim_pc[d] = "done"
        /\ deployments[d].status = FAILED

\* ---- rate limiter ----
\* the requests of client c that were admitted at a time in [w, w + 60 s)
AdmittedIn(c, w) ==
    {i \in 1..Len(requests[c]) : w <= requests[c][i] /\ requests[c][i] < w + Window}

\* a window holding the most admissions can be taken to start at one of them
AdmissionTimes(c) == {requests[c][i] : i \in 1..Len(requests[c])}

\* C11: for each client at most 60 requests to non-health paths are admitted
\* in any 60-second window, and a request that arrives while 60 admitted
\* requests of the client are each less than 60 seconds old is answered 429
\* and is not recorded.
C11_AtMostSixtyPerWindow ==
    [][/\ (\A c \in Clients : \A w \in AdmissionTimes(c) :
              Cardinality(AdmittedIn(c, w)) <= requests_per_minute)'
       /\ \A c \in Clients, path \in Paths :
            (/\ rate_limit_middleware(c, path)
             /\ ~startswith(path, Health)
             /\ Cardinality(AdmittedIn(c, now - Window + 1)) >= requests_per_minute)
                => /\ rate_response'.code = 429
                   /\ Len(requests'[c]) <= Len(requests[c])]_vars

C11_Witness ==
    \E c \in Clients :
        /\ rate_response = RateReply(c, ProjectsPath, 429, 1)
        /\ Len(requests[c]) = requests_per_minute
        /\ now = Window - TicksPerSecond

\* C12: every 429 of the rate limiter carries a Retry-After greater than 0.
C12_RetryAfterPositive ==
    rate_response.code = 429 => rate_response.retry_after > 0

\* C13: a request to a health endpoint is never answered 429 and leaves the
\* stamps of every client as they were.
C13_HealthNotLimited ==
    [][\A c \in Clients, path \in Paths :
          (rate_limit_middleware(c, path) /\ startswith(path, Health))
              => /\ rate_response'.code # 429
                 /\ requests' = requests]_vars

C13_Witness ==
    \E c \in Clients :
        /\ rate_response = RateReply(c, HealthReady, 200, NoHeader)
        /\ Len(requests[c]) = requests_per_minute
        /\ \A i \in 1..Len(requests[c]) : now - requests[c][i] < Window

\* ---- sessions ----
RefreshFinished(s) == pending[s].op = "refresh" /\ pending'[s] = NoRequest

BadToken(token) ==
    token.exp < clock \/ token.type = "access" \/ token \notin refresh_tokens

Rejected(s) ==
    /\ auth_response'.op = "refresh"
    /\ auth_response'.code = 400
    /\ refresh_tokens' = refresh_tokens
    /\ pending'[s] = NoRequest

\* C14: a refresh presented with a token that is expired, of type access or
\* not in the refresh_tokens table is answered 400 and stores no token (no
\* step other than such a rejection is the verification of such a token); a
\* refresh goes on to issue tokens only for a stored, unexpired refresh-type
\* token of an active user, and only a refresh that went on is answered 200.
C14_RefreshRejectsBadTokens ==
    [][\A s \in Refreshing :
          /\ (pending[s] = NoRequest /\ ~Rejected(s) /\ UNCHANGED <<users, clock, refresh_tokens>>)
                => \A token \in Tokens, moment_passed \in BOOLEAN :
                       ~(BadToken(token) /\ refresh_verify(s, token, moment_passed))
          /\ (pending[s] = NoRequest /\ pending'[s].op = "refresh")
                => LET token == pending'[s].token
                   IN /\ token.type = "refresh"
                      /\ token \in refresh_tokens
                      /\ clock <= token.exp
                      /\ token.sub \in DOMAIN users
                      /\ users[token.sub].is_active
          /\ (auth_response' # auth_response /\ auth_response'.op = "refresh" /\ auth_response'.code = 200)
                => RefreshFinished(s)]_vars

C14_Witness ==
    /\ auth_response.op = "refresh"
    /\ auth_response.code = 400
    /\ auth_response.detail = "Invalid or expired refresh token"
    /\ \E token \in logged_out : token.type = "refresh" /\ clock < token.exp
    /\ refresh_tokens # {}

\* C15: a token given to a completed logout is not in the refresh_tokens
\* table afterwards, and every refresh presented with it later is answered 400.
C15_LoggedOutStaysOut ==
    [][/\ (\A token \in logged_out : token \notin refresh_tokens)'
       /\ \A s \in Refreshing, token \in logged_out, moment_passed \in BOOLEAN :
            refresh_verify(s, token, moment_passed)
                => /\ auth_response'.code = 400
                   /\ pending'[s] = NoRequest]_vars

\* C16: a refresh answered 200 returns a refresh token different from the one
\* that was presented.
C16_RefreshRotates ==
    [][\A s \in Refreshing :
          (refresh_commit(s) /\ auth_response'.code = 200)
              => auth_response'.refresh_token # pending[s].token]_vars

\* ---- admin area ----
\* an authenticated requester without admin privileges
NonAdmin(u) == u \in DOMAIN users /\ users[u].is_active /\ ~users[u].is_admin
ActiveAdmin(u) == u \in DOMAIN users /\ users[u].is_active /\ users[u].is_admin

\* a request of u to an endpoint under /admin or /cache or to /analytics/admin/overview
AdminAreaRequest(u) ==
    \/ list_all_users(u)
    \/ \E v \in Users : get_user(u, v)
    \/ \E v \in Users : deactivate_user(u, v)
    \/ \E v \in Users : activate_user(u, v)
    \/ \E s \in AdminSlots, v \in Users : make_admin(s, u, v)
    \/ \E s \in AdminSlots, v \in Users : remove_admin(s, u, v)
    \/ get_system_stats(u)
    \/ list_all_deployments(u)
    \/ list_all_projects(u)
    \/ \E p \in ProjectIds : delete_project_admin(u, p)
    \/ get_cache_stats(u)
    \/ clear_cache(u)
    \/ list_cache_keys(u)
    \/ \E key \in CacheKeys : delete_cache_key(u, key)
    \/ cache_health_check(u)
    \/ get_admin_overview(u)

\* C17: every endpoint under /admin, every endpoint under /cache and
\* /analytics/admin/overview answers an authenticated non-admin with 403 and
\* an empty body and changes nothing.
C17_AdminAreaForbidden ==
    [][\A u \in Users :
          (NonAdmin(u) /\ AdminAreaRequest(u))
              => /\ response'.user = u
                 /\ response'.code = 403
                 /\ response'.body = NoBody
                 /\ UNCHANGED <<users, projects, deployments, cache_keys, pending>>]_vars

C19_DeleteCascades ==
    [][/\ (\A d \in Stored : deployments[d].project_id \in DOMAIN projects)'
       /\ \A u \in Users, p \in ProjectIds :
            (\/ (delete_project(u, p) /\ ProjectOf(u, p))
             \/ (delete_project_admin(u, p) /\ ActiveAdmin(u) /\ p \in DOMAIN projects))
                => /\ response'.code \in {200, 204}
                   /\ p \notin DOMAIN projects'
                   /\ (ProjectDeployments(p) = {})']_vars

\* ---- registration ----
NoDuplicateEmails ==
    \A u \in DOMAIN users, v \in DOMAIN users : users[u].email = users[v].email => u = v

\* C20: a register request that finds its email stored is answered 400
\* 'Email already registered' and creates no user, and no two stored users
\* ever have the same email, also when requests for one email overlap.
C20_EmailsUnique ==
    [][/\ NoDuplicateEmails'
       /\ \A s \in PendingSlots, email \in Emails, strong \in BOOLEAN :
            (register_query(s, email, strong) /\ \E u \in DOMAIN users : users[u].email = email)
                => /\ auth_response'.code = 400
                   /\ auth_response'.detail = "Email already registered"
                   /\ users' = users
                   /\ pending' = pending]_vars

C20_Witness ==
    /\ auth_response.op = "register"
    /\ auth_response.code = 500
    /\ Cardinality(DOMAIN users) = 2
    /\ \E s \in PendingSlots : pending[s].op = "register" /\ UserByEmail(pending[s].email) # {}

\* ---- analytics ----
DateRangeRequest ==
    /\ report.op \in {"get_user_analytics", "get_project_analytics"}
    /\ report.code \notin {401, 404}
    /\ query.start_date.kind = "iso"
    /\ query.end_date.kind = "iso"
    /\ query.start_date.aware = query.end_date.aware

\* C21: a request that names both dates, both with or both without a UTC
\* offset, is answered with statistics exactly
\* when start <= end and end - start is at most 365 days to the second, and
\* with 400 otherwise
C21_DateRangeExact ==
    DateRangeRequest =>
        IF /\ query.start_date.at <= query.end_date.at
           /\ query.end_date.at - query.start_date.at <= MaxRangeDays * SecondsPerDay
        THEN report.code = 200
        ELSE report.code = 400

AdminOverviewSent == report.op = "get_admin_overview" /\ report.code \notin {401, 403}

\* C22: the user growth the admin overview reports is 100 when nobody was
\* created last month and somebody was this month, 0 when nobody was in either
\* month, and (this - last) / last * 100, to two decimals, otherwise
C22_UserGrowth ==
    AdminOverviewSent =>
        LET this == Cardinality(CreatedIn("this"))
            last == Cardinality(CreatedIn("last"))
            growth == report.body.user_growth_percentage
        IN /\ report.code = 200
           /\ (last = 0 /\ this > 0) => growth = 100 * 100
           /\ (last = 0 /\ this = 0) => growth = 0
           /\ last > 0 => /\ 2 * (growth * last - (this - last) * 100 * 100) <= last
                          /\ 2 * ((this - last) * 100 * 100 - growth * last) <= last

StatisticsSent ==
    \/ AdminOverviewSent
    \/ /\ report.op \in {"get_user_analytics", "get_project_analytics"}
       /\ report.code \in {200, 500}
       /\ report.detail # "TypeError"

\* C23: statistics over no deployments report a success rate of 0, statistics
\* over deployments none of which has completed report an average duration of
\* 0, and neither fails on a division by zero
C23_NoDivisionByZero ==
    StatisticsSent =>
        /\ report.detail # "ZeroDivisionError"
        /\ report.code = 200
        /\ Len(query.rows) = 0 => report.body.success_rate = 0
        /\ (\A i \in 1..Len(query.rows) : query.rows[i].completed_at = NULL)
                => report.body.avg_deployment_time_seconds = 0

C23_Witness ==
    /\ report.op = "get_project_analytics"
    /\ report.code = 200
    /\ Len(query.rows) = 0
    /\ report.body.success_rate = 0
    /\ report.body.avg_deployment_time_seconds = 0

\* ---- projects ----
\* C24: the user_id of a project that exists before and after a step is the
\* same before and after it, whatever the step, update_project and the admin
\* requests included
C24_OwnerNeverChanges ==
    [][\A p \in DOMAIN projects \cap DOMAIN projects' :
            projects'[p].user_id = projects[p].user_id]_vars

C24_Witness ==
    /\ response.op = "update_project"
    /\ response.code = 200
    /\ response.target \in DOMAIN projects
    /\ projects[response.target].name = "api"
    /\ users[projects[response.target].user_id].is_admin = FALSE

\* ---- rate limiter, concurrent requests ----
\* the stamps of c that are less than 60 seconds old, in the order recorded
Young(c) == SelectSeq(requests[c], LAMBDA t : now - t < Window)

C30_RejectedNotRecorded ==
    [][\A c \in Clients, path \in Paths :
          (rate_limit_middleware(c, path) /\ ~startswith(path, Health))
              => /\ rate_response'.code = 429
                    => /\ Len(requests'[c]) <= Len(requests[c])
                       /\ \A i \in 1..Len(requests'[c]) :
                            \E j \in 1..Len(requests[c]) : requests'[c][i] = requests[c][j]
                 /\ (requests[c] # <<>> /\ now - min(requests[c]) >= Window)
                    => /\ rate_response'.code = 200
                       /\ requests'[c][Len(requests'[c])] = now]_vars

\* a rejected request a tick before the oldest stamp is 60 seconds old
C30_Witness ==
    \E c \in Clients :
        /\ rate_response.code = 429
        /\ rate_response.client = c
        /\ now = Window - 1
        /\ Len(requests[c]) = requests_per_minute
        /\ \E i \in 1..Len(requests[c]) : requests[c][i] = Window - TicksPerSecond
        /\ \A i \in 1..Len(requests[c]) : requests[c][i] # now

\* ---- sessions, rotation ----
\* C26: when refresh(t) has answered 200, t is no longer accepted: a refresh
\* presented with t right after it is rejected by verify_refresh_token
C26_OldTokenInvalidated ==
    [][\A s \in Refreshing, token \in refresh_tokens :
          (refresh_commit(s) /\ auth_response'.code = 200 /\ token = pending[s].token)
              => \A moment_passed \in BOOLEAN :
                    (verify_refresh_token(token, moment_passed) # "ok")']_vars

\* ---- bearer credentials ----
\* C28: a protected endpoint given a validly signed, unexpired refresh token
\* as its Bearer credential answers 401 and returns nothing of the user
C28_RefreshTokenNotAccepted ==
    [][\A token \in Tokens :
          (get_current_user_info(token) /\ token.type = "refresh" /\ Decodes(token))
              => /\ response'.code = 401
                 /\ response'.body = NoBody]_vars

\* ---- admins ----
\* C29: there is an admin at the start, and after every interleaving of
\* make-admin and remove-admin requests there still is one
C29_AdminRemains == \E u \in DOMAIN users : users[u].is_admin

\* ---- independent simulator runs ----
\* C27: a step of the background task of deployment d, and a cancel request
\* for d, leaves the number of deployments, the project of d and every field
\* of every other deployment as they were
C27_RunsIndependent ==
    [][\A d \in Runs :
          (\/ simulate_deployment(d)
           \/ \E s \in Slots, u \in Users : cancel_query(s, u, d)
           \/ \E s \in Slots : inflight[s].id = d /\ cancel_commit(s))
              => /\ Len(deployments') = Len(deployments)
                 /\ deployments'[d].project_id = deployments[d].project_id
                 /\ \A e \in Runs \ {d} : deployments'[e] = deployments[e]]_vars

C27_Witness ==
    \E d \in Runs, e \in Runs :
        /\ deployments[d].project_id = deployments[e].project_id
        /\ deployments[d].status = SUCCESS
        /\ deployments[e].status = CANCELLED
        /\ first_cancel[e] = PENDING
        /\ sim_pc[e] = "initial_delay"

====
